---- MODULE Spec2Model ----
(***************************************************************************)
(* Model of snoop_program.py: class SnoopTransactions.                     *)
(*                                                                         *)
(* A DataFrame is a sequence of rows (records); the row index plays no     *)
(* part in any operation used by the program.  Text columns that the code  *)
(* orders or parses (transactionDate, sourceDate) are sequences of         *)
(* one-character strings, so that Python's string order and pandas' date   *)
(* parsing are computed rather than assumed.  The PostgreSQL store is the  *)
(* three tables the statements write to; a table is the sequence of its    *)
(* rows, all columns held as text.  Every call of _execute_sql may reach   *)
(* the server, fail on the way (the error is printed and swallowed) or     *)
(* fail to read the credentials (the error propagates).                    *)
(***************************************************************************)
EXTENDS Integers, Sequences, FiniteSets, TLC

VARIABLES
    pc,                       \* the line the caller is at
    file_source,              \* self.file_source
    file_resolves,            \* whether self.file_location names a readable file
    transactions_df,          \* self.transactions_df
    checks,                   \* _run_data_quality_checks: the result of each check
    output_df,                \* process_file: output_df
    errors_df,                \* process_file: errors_df
    error_messages,           \* process_file: error_messages
    total_transactions_rows,  \* self.total_transactions_rows
    total_customer_rows,      \* self.total_customer_rows
    total_error_logs_rows,    \* self.total_error_logs_rows
    transactions,             \* table transactions
    customers,                \* table customers
    error_logs,               \* table error_logs
    stmts,                    \* statements this object has sent to _execute_sql
    written,                  \* history: which statements of this run took effect
    before,                   \* history: the store when the object was constructed
    prev,                     \* history: input and outcome of the previous run
    lastClean,                \* history: per key, the row of the latest clean set holding it
    lastStored,               \* history: the same over the clean sets that were stored
    used,                     \* history: number of input records read so far
    reruns                    \* history: number of times the last file was run again

vars == <<pc, file_source, file_resolves, transactions_df, checks, output_df, errors_df, error_messages,
          total_transactions_rows, total_customer_rows, total_error_logs_rows,
          transactions, customers, error_logs, stmts, written, before, prev,
          lastClean, lastStored, used, reruns>>

(***************************************************************************)
(* Bounds                                                                  *)
(***************************************************************************)
\* Total number of input records read over all runs of a behaviour.
MaxRecords == 2

\* Number of times a file is run again after its first run.
MaxReruns == 1

\* Number of records of the file whose run filled the store beforehand.
MaxStored == 1

(***************************************************************************)
(* Text                                                                    *)
(***************************************************************************)
Digits == <<"0", "1", "2", "3", "4", "5", "6", "7", "8", "9">>

IsDigit(c) == \E i \in 1..10 : Digits[i] = c

DigitVal(c) == (CHOOSE i \in 1..10 : Digits[i] = c) - 1

\* Code point of a character of the model's alphabet ("-" sorts before digits).
Ord(c) == IF c = "-" THEN 45 ELSE 48 + DigitVal(c)

\* Python's str.__lt__: code point by code point, a proper prefix is smaller.
RECURSIVE StrLess(_, _)
StrLess(a, b) ==
    IF b = <<>> THEN FALSE
    ELSE IF a = <<>> THEN TRUE
    ELSE IF Head(a) # Head(b) THEN Ord(Head(a)) < Ord(Head(b))
    ELSE StrLess(Tail(a), Tail(b))

RECURSIVE NumVal(_)
NumVal(s) == IF s = <<>> THEN 0 ELSE 10 * NumVal(SubSeq(s, 1, Len(s) - 1)) + DigitVal(s[Len(s)])

\* s.split('-')
RECURSIVE Split(_)
Split(s) ==
    IF \A i \in 1..Len(s) : s[i] # "-" THEN <<s>>
    ELSE LET k == CHOOSE i \in 1..Len(s) : s[i] = "-" /\ \A j \in 1..(i - 1) : s[j] # "-"
         IN  <<SubSeq(s, 1, k - 1)>> \o Split(SubSeq(s, k + 1, Len(s)))

AllDigits(s) == \A i \in 1..Len(s) : IsDigit(s[i])

IsLeap(y) == y % 4 = 0 /\ (y % 100 # 0 \/ y % 400 = 0)

DaysInMonth(y, m) ==
    IF m = 2 THEN (IF IsLeap(y) THEN 29 ELSE 28)
    ELSE IF m \in {4, 6, 9, 11} THEN 30 ELSE 31

NaT == <<>>

\* pd.to_datetime(s, format='%Y-%m-%d', errors='coerce') on a string of digits
\* and dashes, for years inside the Timestamp range: a four-digit year, a
\* month and a day of one or two digits, a date of the calendar; NaT otherwise.
ToDatetime(s) ==
    LET f == Split(s)
    IN  IF /\ Len(f) = 3
           /\ Len(f[1]) = 4 /\ AllDigits(f[1])
           /\ Len(f[2]) \in 1..2 /\ AllDigits(f[2])
           /\ Len(f[3]) \in 1..2 /\ AllDigits(f[3])
           /\ NumVal(f[2]) \in 1..12
           /\ NumVal(f[3]) \in 1..DaysInMonth(NumVal(f[1]), NumVal(f[2]))
        THEN <<NumVal(f[1]), NumVal(f[2]), NumVal(f[3])>>
        ELSE NaT

\* Order of the parsed dates (the calendar order).
DateLess(a, b) ==
    \/ a[1] < b[1]
    \/ a[1] = b[1] /\ a[2] < b[2]
    \/ a[1] = b[1] /\ a[2] = b[2] /\ a[3] < b[3]

(***************************************************************************)
(* DataFrame operations                                                    *)
(***************************************************************************)
\* Insert r behind every row that does not sort after it (keeps ties in order).
RECURSIVE InsertSorted(_, _, _)
InsertSorted(sorted, r, col) ==
    IF sorted = <<>> THEN <<r>>
    ELSE IF StrLess(r[col], Head(sorted)[col])
         THEN <<r>> \o sorted
         ELSE <<Head(sorted)>> \o InsertSorted(Tail(sorted), r, col)

\* df.sort_values(col) on a text column: ascending string order.  numpy's
\* default sort is an insertion sort below 17 elements, so equal keys keep
\* their input order at every length the model reaches.
RECURSIVE SortValues(_, _)
SortValues(df, col) ==
    IF df = <<>> THEN <<>>
    ELSE InsertSorted(SortValues(SubSeq(df, 1, Len(df) - 1), col), df[Len(df)], col)

SameOn(a, b, cols) == \A c \in cols : a[c] = b[c]

\* df.drop_duplicates(cols, keep='last')
DropDuplicatesKeepLast(df, cols) ==
    LET keepAt(i) == \A j \in (i + 1)..Len(df) : ~SameOn(df[i], df[j], cols)
        RECURSIVE Pick(_)
        Pick(i) == IF i > Len(df) THEN <<>>
                   ELSE (IF keepAt(i) THEN <<df[i]>> ELSE <<>>) \o Pick(i + 1)
    IN  Pick(1)

\* df.drop_duplicates(keep=False): every row that equals another row goes.
DropDuplicatesKeepNone(df) ==
    LET keepAt(i) == \A j \in 1..Len(df) : j # i => df[j] # df[i]
        RECURSIVE Pick(_)
        Pick(i) == IF i > Len(df) THEN <<>>
                   ELSE (IF keepAt(i) THEN <<df[i]>> ELSE <<>>) \o Pick(i + 1)
    IN  Pick(1)

\* df[col] = value
SetColumn(df, col, value) == [i \in 1..Len(df) |-> [df[i] EXCEPT ![col] = value]]

\* df_errors['errorReason'] = reason
WithReason(df, reason) == [i \in 1..Len(df) |-> df[i] @@ [errorReason |-> reason]]

\* df.drop(columns=[col])
DropColumn(df, col) ==
    [i \in 1..Len(df) |-> [c \in (DOMAIN df[i]) \ {col} |-> df[i][c]]]

RowsOf(df) == {df[i] : i \in 1..Len(df)}

\* Python's None, as returned in place of a message.
None == "None"

(***************************************************************************)
(* The data-quality checks                                                 *)
(***************************************************************************)
currencies == {"EUR", "GBP", "USD"}

\* _data_validation_currency(df)
DataValidationCurrency(df) ==
    LET InList(r) == r.currency \in currencies
        df_validation == SelectSeq(df, InList)
        df_errors == WithReason(DropDuplicatesKeepNone(df \o df_validation),
                                "Invalid Currency")
    IN  [df |-> df_validation, errors |-> df_errors,
         message |-> IF Len(df_errors) > 0 THEN "Invalid Currency(s)" ELSE None]

\* _data_validation_transaction_date(df)
DataValidationTransactionDate(df) ==
    LET validated == [i \in 1..Len(df) |->
                        df[i] @@ [transactionDateValidate |->
                                     ToDatetime(df[i].transactionDate)]]
        NotNa(r) == r.transactionDateValidate # NaT
        df_valid == SelectSeq(validated, NotNa)
        df_errors == DropDuplicatesKeepNone(validated \o df_valid)
    IN  [df |-> DropColumn(df_valid, "transactionDateValidate"),
         errors |-> WithReason(DropColumn(df_errors, "transactionDateValidate"),
                               "Invalid transactionDate"),
         message |-> IF Len(df_errors) > 0 THEN "Invalid transactionDate(s)" ELSE None]

\* Variant of _data_deduplicate_transaction: every record of a key held more
\* than once is reported, the survivor included.
DataDeduplicateTransactionAllOfGroup(df) ==
    LET df_dedup == DropDuplicatesKeepLast(SortValues(df, "sourceDate"),
                                           {"customerId", "transactionId"})
        Repeated(r) == \E i, j \in 1..Len(df) :
                          /\ i # j
                          /\ SameOn(df[i], r, {"customerId", "transactionId"})
                          /\ SameOn(df[j], r, {"customerId", "transactionId"})
        df_errors == WithReason(SelectSeq(df, Repeated), "Duplicate Record")
    IN  [df |-> df_dedup, errors |-> df_errors,
         message |-> IF Len(df_errors) > 0 THEN "Duplicate Record(s)" ELSE None]

\* _data_deduplicate_transaction(df)
DataDeduplicateTransaction(df) ==
    LET df_dedup == DropDuplicatesKeepLast(SortValues(df, "sourceDate"),
                                           {"customerId", "transactionId"})
        df_errors == WithReason(DropDuplicatesKeepNone(df \o df_dedup),
                                "Duplicate Record")
    IN  [df |-> df_dedup, errors |-> df_errors,
         message |-> IF Len(df_errors) > 0 THEN "Duplicate Record(s)" ELSE None]

\* Variant of _run_data_quality_checks: every check reads the input file.
RunDataQualityChecksOnInput(df) ==
    LET cur == DataValidationCurrency(df)
        dat == DataValidationTransactionDate(df)
        dup == DataDeduplicateTransaction(
                   SelectSeq(df, LAMBDA r : r \in RowsOf(cur.df) /\ r \in RowsOf(dat.df)))
        NotNone(m) == m # None
    IN  [currency |-> cur, date |-> dat, dedup |-> dup,
         df |-> dup.df,
         errors_df |-> dup.errors \o cur.errors \o dat.errors,
         error_messages |-> SelectSeq(<<dup.message, cur.message, dat.message>>, NotNone)]

\* _run_data_quality_checks(): currency, then transactionDate, then de-duplication.
RunDataQualityChecks(df) ==
    LET cur == DataValidationCurrency(df)
        dat == DataValidationTransactionDate(cur.df)
        dup == DataDeduplicateTransaction(dat.df)
        NotNone(m) == m # None
    IN  [currency |-> cur, date |-> dat, dedup |-> dup,
         df |-> dup.df,
         errors_df |-> dup.errors \o cur.errors \o dat.errors,
         error_messages |-> SelectSeq(<<dup.message, cur.message, dat.message>>, NotNone)]

(***************************************************************************)
(* The store                                                               *)
(***************************************************************************)
RedactionMarker == "******"

\* Variant of UpsertRows: ON CONFLICT DO NOTHING, the stored row is kept.
UpsertKeepStored(table, rows, keycols) ==
    table \o SelectSeq(rows, LAMBDA r :
                 \A i \in 1..Len(table) : ~SameOn(table[i], r, keycols))

\* Variant of UpsertRows: no conflict clause on a table without a key.
UpsertAppend(table, rows, keycols) == table \o rows

\* INSERT ... VALUES rows ON CONFLICT (keycols) DO UPDATE SET every other
\* column: a row whose key is already present replaces the stored row, any
\* other row is added.
RECURSIVE UpsertRows(_, _, _)
UpsertRows(table, rows, keycols) ==
    IF rows = <<>> THEN table
    ELSE LET r == Head(rows)
             hit == {i \in 1..Len(table) : SameOn(table[i], r, keycols)}
             next == IF hit = {} THEN Append(table, r)
                     ELSE [i \in 1..Len(table) |-> IF i \in hit THEN r ELSE table[i]]
         IN  UpsertRows(next, Tail(rows), keycols)

\* INSERT ... VALUES rows, no conflict clause.
InsertRows(table, rows) == table \o rows

\* Whether PostgreSQL accepts the statement built from rows: an empty VALUES
\* list is a syntax error, and ON CONFLICT DO UPDATE refuses to touch one
\* row twice.
StatementAccepted(rows, keycols) ==
    /\ rows # <<>>
    /\ \A i, j \in 1..Len(rows) : i # j => ~SameOn(rows[i], rows[j], keycols)

\* How a call of _execute_sql can go:
\*   "reached"        the statement gets to the server, which runs or refuses it;
\*   "db_error"       connect, execute or commit raises for a cause outside the
\*                    statement (lines 214-221); the except branch prints it;
\*   "no_credentials" _get_db_credentials raises at line 210, outside the try,
\*                    and the error leaves _execute_sql.
ExecuteSqlOutcomes == {"reached", "db_error", "no_credentials"}

\* Whether the statement changed the table: it reached the server and was
\* accepted.  Every other case leaves the table as it was (lines 222-226).
TookEffect(outcome, accepted) == outcome = "reached" /\ accepted

\* _execute_sql(query): the table after the call.
ExecuteSql(table, outcome, accepted, result) ==
    IF TookEffect(outcome, accepted) THEN result ELSE table

\* Whether _execute_sql returns to its caller (any error but the credentials
\* one is swallowed).
ExecuteSqlReturns(outcome) == outcome # "no_credentials"

TransactionKey == {"customerId", "transactionId"}

CustomerKey == {"customerId"}

\* _load_transactions_data: df['customerName'] = '******'
RedactedDf(df) == SetColumn(df, "customerName", RedactionMarker)

\* _load_customers_data: the rows of the customers statement.
CustomerRows(df) ==
    LET last == DropDuplicatesKeepLast(SortValues(df, "transactionDate"), CustomerKey)
    IN  [i \in 1..Len(last) |->
            [customerId |-> last[i].customerId,
             transactionDateLatest |-> last[i].transactionDate]]

\* _create_postgres_tables: one statement per DDL file.
DdlStatements == <<"ddl customers", "ddl error_logs", "ddl transactions">>

\* A table after its DDL file has run.  The files (ddl/*.sql) bootstrap the
\* schema of a persistent store: they create a table that is missing and
\* leave the rows of an existing one alone.
CreatePostgresTable(table) == table

(***************************************************************************)
(* Inputs                                                                  *)
(***************************************************************************)
Row(c, name, t, d, s, cur, amt) ==
    [customerId |-> c, customerName |-> name, transactionId |-> t,
     transactionDate |-> d, sourceDate |-> s, merchantId |-> "m1",
     categoryId |-> "k1", currency |-> cur, amount |-> amt, description |-> "x"]

LeapDay    == <<"2", "0", "2", "4", "-", "0", "2", "-", "2", "9">>
Feb30      == <<"2", "0", "2", "4", "-", "0", "2", "-", "3", "0">>
Sep1Short  == <<"2", "0", "2", "4", "-", "9", "-", "0", "1">>
Oct1       == <<"2", "0", "2", "4", "-", "1", "0", "-", "0", "1">>
SourceOld  == <<"2", "0", "2", "4", "-", "1", "1", "-", "0", "1">>
SourceNew  == <<"2", "0", "2", "4", "-", "1", "1", "-", "0", "2">>

\* The records a file may hold: valid ones, two versions of one transaction,
\* two records that differ in the customer's name alone, a date written
\* without padding, and records failing one or two checks.
Records ==
    { Row("c1", "Ada", "t1", LeapDay,   SourceOld, "USD", 10),
      Row("c1", "Ada", "t1", Oct1,      SourceNew, "USD", 20),
      Row("c1", "Bob", "t1", Oct1,      SourceNew, "USD", 20),
      Row("c1", "Ada", "t2", Sep1Short, SourceOld, "GBP", 10),
      Row("c2", "Ada", "t1", Oct1,      SourceOld, "EUR", 10),
      Row("c2", "Ada", "t1", LeapDay,   SourceOld, "usd", 10),
      Row("c2", "Ada", "t2", Feb30,     SourceOld, "USD", 10),
      Row("c2", "Ada", "t2", Feb30,     SourceNew, "XYZ", 10) }

FileSources == {"local", "s3", "gcp"}

\* The files: sequences of at most n records.
Files(n) == UNION {[1..k -> Records] : k \in 0..n}

\* The records of the files that are run twice: two versions of one
\* transaction, a transaction of another customer and a record the checks
\* reject.
RerunRecords ==
    { Row("c1", "Ada", "t1", LeapDay,   SourceOld, "USD", 10),
      Row("c1", "Ada", "t1", Oct1,      SourceNew, "USD", 20),
      Row("c2", "Ada", "t1", Oct1,      SourceOld, "EUR", 10),
      Row("c2", "Ada", "t2", Feb30,     SourceNew, "XYZ", 10) }

\* The files that are run twice: sequences of at most n of these records.
RerunFiles(n) == UNION {[1..k -> RerunRecords] : k \in 0..n}

(***************************************************************************)
(* The program                                                             *)
(***************************************************************************)
NoDf == <<>>

NoChecks == [currency |-> NoDf, date |-> NoDf, dedup |-> NoDf]

NothingWritten == [transactions |-> FALSE, customers |-> FALSE, error_logs |-> FALSE]

NoPrev == [df |-> NoDf, before |-> <<>>, transactions |-> <<>>, stored |-> FALSE]

\* History: the rows of a clean set take the place of the rows recorded for
\* their keys.
Supersede(recorded, rows) ==
    {r \in recorded : \A q \in rows : ~SameOn(q, r, TransactionKey)} \cup rows

Init ==
    /\ pc = "start"
    /\ file_source = "local"
    /\ file_resolves = TRUE
    /\ transactions_df = NoDf
    /\ checks = NoChecks
    /\ output_df = NoDf
    /\ errors_df = NoDf
    /\ error_messages = <<>>
    /\ total_transactions_rows = 0
    /\ total_customer_rows = 0
    /\ total_error_logs_rows = 0
    /\ transactions = <<>>
    /\ customers = <<>>
    /\ error_logs = <<>>
    /\ stmts = <<>>
    /\ written = NothingWritten
    /\ before = [transactions |-> <<>>, customers |-> <<>>, error_logs |-> <<>>,
                 stmts |-> 0]
    /\ prev = NoPrev
    /\ lastClean = {}
    /\ lastStored = {}
    /\ used = 0
    /\ reruns = 0

\* Whether the source kind is one _create_transactions_df reads from.
SupportedSource(source) == source \in {"local", "s3"}

\* _create_transactions_df: whether the DataFrame is built.  An unsupported
\* source raises at line 42, a locator that does not resolve raises in
\* _extract_local_file / _extract_s3_file, and a file without records raises
\* at line 47 (json_normalize of [] has no columns to rename).
CreateTransactionsDfOk(source, resolves, content) ==
    /\ SupportedSource(source)
    /\ resolves
    /\ content # <<>>

\* _create_postgres_tables: the number of calls of _execute_sql the loop
\* makes when call number failAt is the first that cannot read the
\* credentials (0: every call can).
DdlCalls(failAt) == IF failAt = 0 THEN Len(DdlStatements) ELSE failAt

\* _create_postgres_tables: whether DDL file number k gets past the
\* credentials to the connection.
DdlReached(created, failAt, k) == created /\ (failAt = 0 \/ k < failAt)

\* Variant of __init__: the tables are created before the file is read.
ConstructorStatementsFirst(created, failAt) ==
    SubSeq(DdlStatements, 1, DdlCalls(failAt))

\* __init__: the calls of _execute_sql made by the constructor; there is
\* none unless the DataFrame is built.
ConstructorStatements(created, failAt) ==
    IF created THEN SubSeq(DdlStatements, 1, DdlCalls(failAt)) ELSE <<>>

\* The caller is between runs.
Idle == pc \in {"start", "returned", "raised", "errored", "ctor_failed"}

\* SnoopTransactions(file_source, file_location) on a file of the given
\* content.  A DDL call that cannot read the credentials ends the
\* constructor with that error; one that fails for another cause is
\* swallowed and leaves the table as it was, as one that succeeds does.
NewProgram(source, resolves, content, failAt) ==
    LET created == CreateTransactionsDfOk(source, resolves, content)
        sent == ConstructorStatements(created, failAt)
        built == created /\ failAt = 0
    IN  /\ created \/ failAt = 0
        /\ file_source' = source
        /\ file_resolves' = resolves
        /\ transactions_df' = IF built THEN content ELSE NoDf
        /\ stmts' = sent
        /\ pc' = IF built THEN "run_checks" ELSE "ctor_failed"
        /\ customers' = IF DdlReached(created, failAt, 1)
                        THEN CreatePostgresTable(customers) ELSE customers
        /\ error_logs' = IF DdlReached(created, failAt, 2)
                         THEN CreatePostgresTable(error_logs) ELSE error_logs
        /\ transactions' = IF DdlReached(created, failAt, 3)
                           THEN CreatePostgresTable(transactions)
                           ELSE transactions
        /\ before' = [transactions |-> transactions, customers |-> customers,
                      error_logs |-> error_logs, stmts |-> Len(sent)]
        /\ prev' = IF pc \in {"returned", "raised", "errored"}
                   THEN [df |-> transactions_df, before |-> before.transactions,
                         transactions |-> transactions,
                         stored |-> written.transactions]
                   ELSE NoPrev
        /\ written' = NothingWritten
        /\ checks' = NoChecks
        /\ output_df' = NoDf
        /\ errors_df' = NoDf
        /\ error_messages' = <<>>
        /\ total_transactions_rows' = 0
        /\ total_customer_rows' = 0
        /\ total_error_logs_rows' = 0
        /\ UNCHANGED <<lastClean, lastStored>>

\* The program is started on a file.
Construct ==
    /\ Idle
    /\ \E source \in FileSources, resolves \in BOOLEAN :
       \E content \in (IF SupportedSource(source) /\ resolves
                       THEN Files(MaxRecords - used) ELSE {NoDf}) :
       \E failAt \in 0..Len(DdlStatements) :
          /\ NewProgram(source, resolves, content, failAt)
          /\ used' = used + Len(content)
    /\ reruns' = 0

\* The program is started, over the store as it stands, on a file that
\* will be run again.
ConstructFirst ==
    /\ pc = "start"
    /\ \E source \in FileSources, resolves \in BOOLEAN :
       \E content \in (IF SupportedSource(source) /\ resolves
                       THEN RerunFiles(MaxRecords) ELSE {NoDf}) :
       \E failAt \in 0..Len(DdlStatements) :
          /\ NewProgram(source, resolves, content, failAt)
          /\ used' = used + Len(content)
    /\ reruns' = 0

\* The program is started again on the file of the run that has just ended:
\* the same source and locator, the same content.
ConstructAgain ==
    /\ pc \in {"returned", "raised", "errored"}
    /\ reruns < MaxReruns
    /\ \E failAt \in 0..Len(DdlStatements) :
          NewProgram(file_source, file_resolves, transactions_df, failAt)
    /\ reruns' = reruns + 1
    /\ UNCHANGED used

\* Variant of process_file: the failure is raised as soon as the checks end.
ProcessFileNextRaiseFirst(at, errs, msgs) ==
    LET finish == IF msgs # <<>> THEN "raised" ELSE "returned"
    IN  CASE at = "run_checks" -> IF msgs # <<>> THEN "raised" ELSE "load_transactions"
          [] at = "load_transactions" -> "load_customers"
          [] at = "load_customers" -> IF Len(errs) > 0 THEN "load_error_logs" ELSE finish
          [] at = "load_error_logs" -> finish

\* process_file: the line reached after the line `at` has returned.
ProcessFileNext(at, errs, msgs) ==
    LET finish == IF msgs # <<>> THEN "raised" ELSE "returned"
    IN  CASE at = "run_checks" -> "load_transactions"
          [] at = "load_transactions" -> "load_customers"
          [] at = "load_customers" -> IF Len(errs) > 0 THEN "load_error_logs" ELSE finish
          [] at = "load_error_logs" -> finish

\* process_file: where the caller is after a load at line `at` whose call of
\* _execute_sql went as `outcome`: an error leaving _execute_sql leaves
\* process_file too.
AfterLoad(at, outcome, errs, msgs) ==
    IF ExecuteSqlReturns(outcome) THEN ProcessFileNext(at, errs, msgs) ELSE "errored"

\* process_file, line 104: _run_data_quality_checks()
RunChecks ==
    /\ pc = "run_checks"
    /\ LET dq == RunDataQualityChecks(transactions_df)
       IN  /\ checks' = [currency |-> dq.currency, date |-> dq.date, dedup |-> dq.dedup]
           /\ output_df' = dq.df
           /\ errors_df' = dq.errors_df
           /\ error_messages' = dq.error_messages
           /\ pc' = ProcessFileNext(pc, dq.errors_df, dq.error_messages)
    /\ UNCHANGED <<file_source, file_resolves, transactions_df, total_transactions_rows,
                   total_customer_rows, total_error_logs_rows, transactions,
                   customers, error_logs, stmts, written, before, prev,
                   lastClean, lastStored, used, reruns>>

\* process_file, line 106: _load_transactions_data(output_df)
LoadTransactionsData ==
    /\ pc = "load_transactions"
    /\ \E outcome \in ExecuteSqlOutcomes :
          LET df == RedactedDf(output_df)
              accepted == StatementAccepted(df, TransactionKey)
          IN  /\ output_df' = df
              /\ transactions' = ExecuteSql(transactions, outcome, accepted,
                                            UpsertRows(transactions, df, TransactionKey))
              /\ total_transactions_rows' =
                    IF ExecuteSqlReturns(outcome) THEN Len(df) ELSE total_transactions_rows
              /\ written' = [written EXCEPT !.transactions = TookEffect(outcome, accepted)]
              /\ lastClean' = Supersede(lastClean, RowsOf(df))
              /\ lastStored' = IF TookEffect(outcome, accepted)
                               THEN Supersede(lastStored, RowsOf(df)) ELSE lastStored
              /\ pc' = AfterLoad(pc, outcome, errors_df, error_messages)
    /\ stmts' = Append(stmts, "transactions")
    /\ UNCHANGED <<file_source, file_resolves, transactions_df, checks, errors_df,
                   error_messages, total_customer_rows, total_error_logs_rows,
                   customers, error_logs, before, prev, used, reruns>>

\* process_file, line 107: _load_customers_data(output_df)
LoadCustomersData ==
    /\ pc = "load_customers"
    /\ \E outcome \in ExecuteSqlOutcomes :
          LET df == CustomerRows(output_df)
              accepted == StatementAccepted(df, CustomerKey)
          IN  /\ customers' = ExecuteSql(customers, outcome, accepted,
                                         UpsertRows(customers, df, CustomerKey))
              /\ total_customer_rows' =
                    IF ExecuteSqlReturns(outcome) THEN Len(df) ELSE total_customer_rows
              /\ written' = [written EXCEPT !.customers = TookEffect(outcome, accepted)]
              /\ pc' = AfterLoad(pc, outcome, errors_df, error_messages)
    /\ stmts' = Append(stmts, "customers")
    /\ UNCHANGED <<file_source, file_resolves, transactions_df, checks, output_df,
                   errors_df, error_messages, total_transactions_rows,
                   total_error_logs_rows, transactions, error_logs, before, prev,
                   lastClean, lastStored, used, reruns>>

\* process_file, lines 108-109: _load_error_logs_data(errors_df)
LoadErrorLogsData ==
    /\ pc = "load_error_logs"
    /\ \E outcome \in ExecuteSqlOutcomes :
          LET df == RedactedDf(errors_df)
          IN  /\ errors_df' = df
              /\ error_logs' = ExecuteSql(error_logs, outcome, df # <<>>,
                                          InsertRows(error_logs, df))
              /\ total_error_logs_rows' =
                    IF ExecuteSqlReturns(outcome) THEN Len(df) ELSE total_error_logs_rows
              /\ written' = [written EXCEPT !.error_logs = TookEffect(outcome, df # <<>>)]
              /\ pc' = AfterLoad(pc, outcome, errors_df, error_messages)
    /\ stmts' = Append(stmts, "error_logs")
    /\ UNCHANGED <<file_source, file_resolves, transactions_df, checks, output_df,
                   error_messages, total_transactions_rows, total_customer_rows,
                   transactions, customers, before, prev, lastClean, lastStored, used, reruns>>

Next ==
    \/ Construct
    \/ RunChecks
    \/ LoadTransactionsData
    \/ LoadCustomersData
    \/ LoadErrorLogsData

Spec == Init /\ [][Next]_vars

\* The store after a run on file f, from an empty store, in which every
\* statement reached the server.
StoreAfter(f) ==
    LET dq == RunDataQualityChecks(f)
        df == RedactedDf(dq.df)
        cust == CustomerRows(df)
        errs == RedactedDf(dq.errors_df)
    IN  [transactions |-> ExecuteSql(<<>>, "reached",
                                     StatementAccepted(df, TransactionKey),
                                     UpsertRows(<<>>, df, TransactionKey)),
         customers |-> ExecuteSql(<<>>, "reached",
                                  StatementAccepted(cust, CustomerKey),
                                  UpsertRows(<<>>, cust, CustomerKey)),
         error_logs |-> ExecuteSql(<<>>, "reached", errs # <<>>,
                                   InsertRows(<<>>, errs))]

\* The stores an earlier run may have left.
Stores == {StoreAfter(f) : f \in RerunFiles(MaxStored)}

\* The program is about to start over a store that is empty or was filled by
\* an earlier run.
InitRerun ==
    /\ pc = "start"
    /\ file_source = "local"
    /\ file_resolves = TRUE
    /\ transactions_df = NoDf
    /\ checks = NoChecks
    /\ output_df = NoDf
    /\ errors_df = NoDf
    /\ error_messages = <<>>
    /\ total_transactions_rows = 0
    /\ total_customer_rows = 0
    /\ total_error_logs_rows = 0
    /\ \E store \in Stores :
          /\ transactions = store.transactions
          /\ customers = store.customers
          /\ error_logs = store.error_logs
          /\ before = [transactions |-> store.transactions,
                       customers |-> store.customers,
                       error_logs |-> store.error_logs, stmts |-> 0]
          /\ lastClean = RowsOf(store.transactions)
          /\ lastStored = RowsOf(store.transactions)
    /\ stmts = <<>>
    /\ written = NothingWritten
    /\ prev = NoPrev
    /\ used = 0
    /\ reruns = 0

NextRerun ==
    \/ ConstructFirst
    \/ ConstructAgain
    \/ RunChecks
    \/ LoadTransactionsData
    \/ LoadCustomersData
    \/ LoadErrorLogsData

\* A run of the program on a file and runs on the same file again, over a
\* store that an earlier run may have filled.
SpecRerun == InitRerun /\ [][NextRerun]_vars
(***************************************************************************)
(* Properties                                                              *)
(***************************************************************************)
\* process_file has returned or raised.
Finished == pc \in {"returned", "raised"}

\* The checks of the current run have run.
Checked == pc \in {"load_transactions", "load_customers", "load_error_logs",
                   "returned", "raised"}

\* The checks have just run: nothing is redacted yet.
JustChecked == pc = "load_transactions"

RedactRow(r) == [r EXCEPT !.customerName = RedactionMarker]

StripReason(e) == [c \in (DOMAIN e) \ {"errorReason"} |-> e[c]]

\* Positions of df holding a row with the key of r.
Group(df, r) == {i \in 1..Len(df) : SameOn(df[i], r, TransactionKey)}

\* Positions of the rejected rows of record r carrying a reason of the set.
RejectsOf(df, r, reasons) ==
    {i \in 1..Len(df) : StripReason(df[i]) = r /\ df[i].errorReason \in reasons}

Reasons == {"Duplicate Record", "Invalid Currency", "Invalid transactionDate"}

\* C1 as stated: the transactions table never holds two rows with one
\* (customerId, transactionId), and the row stored for a key is the row of
\* the most recent run whose clean set held the key.
C1_KeyUniqueLatestWins ==
    /\ \A i, j \in 1..Len(transactions) :
          i # j => ~SameOn(transactions[i], transactions[j], TransactionKey)
    /\ RowsOf(transactions) = lastClean

\* C1 as amended: the transactions table never holds two rows with one
\* (customerId, transactionId), and the row stored for a key is the row of
\* the most recent run whose clean set held the key and whose transactions
\* statement took effect in the store.
C1_KeyUniqueLatestStoredWins ==
    /\ \A i, j \in 1..Len(transactions) :
          i # j => ~SameOn(transactions[i], transactions[j], TransactionKey)
    /\ RowsOf(transactions) = lastStored

\* C1 witness: a run has replaced a row stored by an earlier run.
C1_Witness ==
    /\ Finished
    /\ written.transactions
    /\ \E r \in RowsOf(before.transactions), q \in RowsOf(output_df) :
          /\ SameOn(r, q, TransactionKey)
          /\ r # q
          /\ q \in RowsOf(transactions)

\* The statements sent by the current call of process_file.
RunStatements == SubSeq(stmts, before.stmts + 1, Len(stmts))

\* The statements process_file sends when it runs to its end.
AllWrites ==
    <<"transactions", "customers">>
        \o (IF Len(errors_df) > 0 THEN <<"error_logs">> ELSE <<>>)

\* C2 as stated: every run of process_file sends the transactions statement,
\* then the customers statement, then the error_logs statement exactly when
\* there are rejected rows, all before it raises the failure of the checks,
\* which it does exactly when a check gave a message; a run that raises has
\* written its clean set.
C2_WritesBeforeRaise ==
    /\ pc = "load_transactions" => RunStatements = <<>>
    /\ pc = "load_customers" => RunStatements = <<"transactions">>
    /\ pc = "load_error_logs" => RunStatements = <<"transactions", "customers">>
    /\ pc \in {"returned", "raised", "errored"} =>
          /\ RunStatements = AllWrites
          /\ pc = "raised" <=> error_messages # <<>>
    /\ pc = "raised" => RowsOf(output_df) \subseteq RowsOf(transactions)

\* C2 as amended: a run in which every call reads the store credentials
\* sends the transactions statement, then the customers statement, then the
\* error_logs statement exactly when there are rejected rows, all before it
\* raises the failure of the checks, which it does exactly when a check gave
\* a message; such a run has written its clean set if its transactions
\* statement took effect in the store, and has left the table as it was
\* otherwise.  A run in which a call cannot read the credentials ends there:
\* its statements are a proper or whole prefix of those, and the failure of
\* the checks is not raised.
C2_WritesBeforeRaiseUnlessAborted ==
    /\ pc = "load_transactions" => RunStatements = <<>>
    /\ pc = "load_customers" => RunStatements = <<"transactions">>
    /\ pc = "load_error_logs" => RunStatements = <<"transactions", "customers">>
    /\ Finished =>
          /\ RunStatements = AllWrites
          /\ pc = "raised" <=> error_messages # <<>>
    /\ pc \in {"load_customers", "load_error_logs", "returned", "raised", "errored"} =>
          IF written.transactions
          THEN RowsOf(output_df) \subseteq RowsOf(transactions)
          ELSE transactions = before.transactions
    /\ pc = "errored" =>
          /\ RunStatements # <<>>
          /\ RunStatements = SubSeq(AllWrites, 1, Len(RunStatements))

\* C2 witness: a run raised after writing a clean set and rejected rows.
C2_Witness ==
    /\ pc = "raised"
    /\ written.transactions
    /\ written.error_logs
    /\ output_df # <<>>
    /\ RowsOf(output_df) \subseteq RowsOf(transactions)
    /\ Len(error_logs) > 0

\* C3: process_file raises exactly when some input record is not in the
\* clean set, and a run that returns after its transactions statement took
\* effect has stored every input record.
C3_FailsIffRecordNotAccepted ==
    Finished =>
        /\ pc = "raised" <=>
              \E i \in 1..Len(transactions_df) :
                  transactions_df[i] \notin RowsOf(checks.dedup.df)
        /\ (pc = "returned" /\ written.transactions) =>
              \A i \in 1..Len(transactions_df) :
                  RedactRow(transactions_df[i]) \in RowsOf(transactions)

\* C4: for every key group of size n given to the de-duplication, exactly
\* one record of the group is accepted, it has the greatest sourceDate of the
\* group, and n-1 rows of the group are rejected as 'Duplicate Record'.
C4_DedupKeepsLatestRejectsRest ==
    Checked =>
        LET in == checks.date.df
            acc == checks.dedup.df
            rej == checks.dedup.errors
        IN  \A k \in 1..Len(in) :
               /\ Cardinality(Group(acc, in[k])) = 1
               /\ \A i \in Group(acc, in[k]) : \A j \in Group(in, in[k]) :
                     ~StrLess(acc[i].sourceDate, in[j].sourceDate)
               /\ Cardinality(Group(rej, in[k])) = Cardinality(Group(in, in[k])) - 1
               /\ \A i \in Group(rej, in[k]) : rej[i].errorReason = "Duplicate Record"

\* C5: the currency check accepts exactly the records with a listed
\* currency, rejects one row per other record with reason 'Invalid Currency',
\* and gives a message exactly when some record has an unlisted currency.
C5_CurrencyPartition ==
    Checked =>
        LET in == transactions_df
            acc == checks.currency.df
            rej == checks.currency.errors
            Listed(r) == r.currency \in {"EUR", "GBP", "USD"}
        IN  /\ acc = SelectSeq(in, Listed)
            /\ Len(acc) + Len(rej) = Len(in)
            /\ \A i \in 1..Len(rej) :
                  ~Listed(rej[i]) /\ rej[i].errorReason = "Invalid Currency"
            /\ checks.currency.message # None <=> \E i \in 1..Len(in) : ~Listed(in[i])

\* C6 as stated: no (customerId, transactionId) is both in the clean set and
\* in the final rejected collection.
C6_NoKeyCleanAndRejected ==
    JustChecked =>
        \A i \in 1..Len(output_df), j \in 1..Len(errors_df) :
            ~SameOn(output_df[i], errors_df[j], TransactionKey)

\* C6 as amended: no record, compared on all its input fields, is both in
\* the clean set and in the final rejected collection.
C6_NoRecordCleanAndRejected ==
    JustChecked =>
        \A i \in 1..Len(output_df), j \in 1..Len(errors_df) :
            StripReason(errors_df[j]) # output_df[i]

\* C6 witness: a key is shared by a clean record and a rejected one.
C6_Witness ==
    /\ JustChecked
    /\ \E i \in 1..Len(output_df), j \in 1..Len(errors_df) :
          /\ SameOn(output_df[i], errors_df[j], TransactionKey)
          /\ errors_df[j].errorReason = "Duplicate Record"

\* Record r fails the currency check and the transactionDate check.
FailsTwoChecks(r) ==
    /\ r.currency \notin {"EUR", "GBP", "USD"}
    /\ ToDatetime(r.transactionDate) = NaT

\* C7 as stated: a record failing two checks is rejected once for each of
\* them, and is not clean.
C7_RejectedOncePerFailingCheck ==
    JustChecked =>
        \A k \in 1..Len(transactions_df) :
            LET r == transactions_df[k]
            IN  FailsTwoChecks(r) =>
                   /\ Cardinality(RejectsOf(errors_df, r, {"Invalid Currency"})) = 1
                   /\ Cardinality(RejectsOf(errors_df, r, {"Invalid transactionDate"})) = 1
                   /\ r \notin RowsOf(output_df)

\* C7 as amended: a record failing the currency check and the date check is
\* rejected by the currency check alone: no row of it carries another
\* reason, one row carries 'Invalid Currency' when no other input record
\* equals it and none otherwise, and it is not clean.
C7_RejectedByFirstFailingCheck ==
    JustChecked =>
        \A k \in 1..Len(transactions_df) :
            LET r == transactions_df[k]
                alone == \A j \in 1..Len(transactions_df) :
                            j # k => transactions_df[j] # r
            IN  FailsTwoChecks(r) =>
                   /\ RejectsOf(errors_df, r, Reasons \ {"Invalid Currency"}) = {}
                   /\ Cardinality(RejectsOf(errors_df, r, {"Invalid Currency"}))
                         = (IF alone THEN 1 ELSE 0)
                   /\ r \notin RowsOf(output_df)

\* C7 witness: a record failing both checks sits in the rejected collection
\* beside a record rejected for its date.
C7_Witness ==
    /\ JustChecked
    /\ \E k \in 1..Len(transactions_df) :
          /\ FailsTwoChecks(transactions_df[k])
          /\ RejectsOf(errors_df, transactions_df[k], {"Invalid Currency"}) # {}
    /\ \E j \in 1..Len(errors_df) : errors_df[j].errorReason = "Invalid transactionDate"

\* C8: after a run whose customers statement succeeded, the customers table
\* has one row per customerId, the row of every customer of the clean set
\* holds the latest transactionDate of that customer's clean records, as many
\* rows were written as the clean set has customers, and the rows of other
\* customers are as they were.
C8_SummaryHoldsLatestDate ==
    (Finished /\ written.customers) =>
        LET ids == {output_df[i].customerId : i \in 1..Len(output_df)}
        IN  /\ \A i, j \in 1..Len(customers) :
                  i # j => customers[i].customerId # customers[j].customerId
            /\ \A i \in 1..Len(output_df) :
                  \E c \in 1..Len(customers) :
                      /\ customers[c].customerId = output_df[i].customerId
                      /\ ~DateLess(ToDatetime(customers[c].transactionDateLatest),
                                   ToDatetime(output_df[i].transactionDate))
            /\ total_customer_rows = Cardinality(ids)
            /\ \A c \in 1..Len(before.customers) :
                  before.customers[c].customerId \notin ids
                     => before.customers[c] \in RowsOf(customers)

\* The run that has just ended repeated the file of the run before it.
SecondRunEnded ==
    /\ pc \in {"returned", "raised", "errored"}
    /\ reruns = 1

\* The rows of the table after one run whose transactions statement took
\* effect: the rows stored before the first run, those with a key of the
\* clean set replaced by the clean set's rows.
RowsAfterOneRun == Supersede(RowsOf(prev.before), RowsOf(output_df))

\* C9 as stated: starting from an empty store, a second run on the same
\* input leaves the transactions table with the rows one run leaves, adding
\* no row and changing none.
C9_SecondRunChangesNothing ==
    (SecondRunEnded /\ prev.before = <<>>) =>
        /\ transactions = prev.transactions
        /\ RowsOf(transactions) = RowsAfterOneRun

\* C9 as amended: after two runs on the same input, from an empty store or
\* any other, the transactions table holds the rows one run whose
\* statement took effect leaves, one row per key, if the statement of
\* either run took effect, and is as it was before the first run if neither
\* did; a second run after a first whose statement took effect adds no row
\* and changes none.
C9_TwoRunsAsOneEffectiveRun ==
    SecondRunEnded =>
        /\ (prev.stored \/ written.transactions) =>
              /\ RowsOf(transactions) = RowsAfterOneRun
              /\ Len(transactions) = Cardinality(RowsAfterOneRun)
        /\ (~prev.stored /\ ~written.transactions) => transactions = prev.before
        /\ prev.stored => transactions = prev.transactions

\* C9 witness: over a store that held a row, a batch of two clean records,
\* one replacing the stored row, was stored by the first run and run again
\* with effect.
C9_Witness ==
    /\ SecondRunEnded
    /\ prev.stored
    /\ written.transactions
    /\ Len(output_df) >= 2
    /\ \E r \in RowsOf(prev.before), q \in RowsOf(output_df) :
          SameOn(r, q, TransactionKey) /\ r # q
    /\ transactions = prev.transactions

\* C10: with an unsupported source or a locator that does not resolve the
\* constructor fails, having sent no statement to the store, run no check
\* and left every table as it was.
C10_SourceErrorBeforeAnyWork ==
    (pc # "start" /\ (file_source \notin {"local", "s3"} \/ ~file_resolves)) =>
        /\ pc = "ctor_failed"
        /\ stmts = <<>>
        /\ written = NothingWritten
        /\ checks = NoChecks
        /\ transactions = before.transactions
        /\ customers = before.customers
        /\ error_logs = before.error_logs

\* C10 witness: a constructor failed on a missing file over a filled store.
C10_Witness ==
    /\ pc = "ctor_failed"
    /\ file_source = "local"
    /\ ~file_resolves
    /\ Len(transactions) > 0
====
